---- MODULE Spec2Model ----
(***************************************************************************)
(* A model of src/main.py: the e-book assembly pipeline (generate_book and *)
(* the helpers it calls).                                                  *)
(*                                                                         *)
(* A Python str is modelled as a sequence of tokens.  A token is a piece   *)
(* of text that the program never looks inside: one of the characters the  *)
(* program treats specially ("<", ">", "&", "/", " "), or a word.  The     *)
(* markers the program searches for ("<body>", "</body>", class="page",    *)
(* the break div) are sequences of such tokens, so a search, a split or a  *)
(* replace on the str is a search, a split or a replace on the tokens.     *)
(* TokLen gives the number of characters of a token, so that slicing by    *)
(* characters ([:60], [:1250]) and wrapping by width (600) are computed    *)
(* with the program's own numbers.                                         *)
(***************************************************************************)
EXTENDS Integers, Sequences, FiniteSets, TLC

VARIABLES
    \* ---- _ai_image (one call, followed attempt by attempt)
    prompt, style, theme_color, retries,   \* the arguments of the call
    faults,        \* the calls of _make_base64_svg made to fail (fault injection)
    attempt,       \* iterations of the retry loop begun so far
    last_error,    \* Optional[str]: [none |-> TRUE] or the last str(e)
    errors,        \* the failure reasons seen, in order (history)
    img_pc,        \* "idle" | "loop" | "returned" | "raised"
    img_out,       \* the data URI returned
    \* ---- _length_to_pages (one call)
    length, pages_out, plan_pc,
    \* ---- generate_book (one request)
    req,           \* the GenerateRequest
    omit_markers,  \* fault injection: the content composer omits class="page"
    pc,            \* position in generate_book
    cover_html, html_parts, i, content_html, full_html,
    response       \* [status, detail] of the HTTP response

img_vars  == <<prompt, style, theme_color, retries, faults, attempt, last_error,
               errors, img_pc, img_out>>
plan_vars == <<length, pages_out, plan_pc>>
gen_vars  == <<req, omit_markers, pc, cover_html, html_parts, i, content_html,
               full_html, response>>
vars      == <<img_vars, plan_vars, gen_vars>>

---------------------------------------------------------------------------
(* Tokens that stand for one non-ASCII character of the source.            *)
EMDASH    == "(em-dash)"      \* U+2014, main.py:140 and :222
BULLET    == "(bullet)"       \* U+2022, main.py:120
SURROGATE == "(U+D800)"       \* a lone surrogate: str accepts it, UTF-8 does not

\* A proper prefix of k characters of a word cut by a slice.
RECURSIVE Pad(_)
Pad(k) == IF k <= 0 THEN "" ELSE "~" \o Pad(k - 1)

\* len() of one token, in characters.
TokLen(t) == IF t \in {EMDASH, BULLET, SURROGATE} THEN 1 ELSE Len(t)

IsSpace(t) == t \in {" ", "\n", "\r", "\t"}

Min(a, b) == IF a < b THEN a ELSE b
Max(a, b) == IF a > b THEN a ELSE b

\* len(s) in characters; PrefixLen(s)[k] = len of the first k tokens.
RECURSIVE PrefixLen(_)
PrefixLen(s) ==
    IF Len(s) = 0 THEN <<>>
    ELSE IF Len(s) = 1 THEN <<TokLen(s[1])>>
    ELSE LET m == Len(s) \div 2
             a == PrefixLen(SubSeq(s, 1, m))
             b == PrefixLen(SubSeq(s, m + 1, Len(s)))
         IN  a \o [k \in 1..Len(b) |-> a[m] + b[k]]

StrLen(s) == IF s = <<>> THEN 0 ELSE PrefixLen(s)[Len(s)]

\* s[:n]: the first n characters.  A word the slice cuts through leaves a
\* proper prefix of itself, Pad of the characters kept.
Slice(s, n) ==
    LET P    == PrefixLen(s)
        full == {k \in 1..Len(s) : P[k] <= n}
        k    == Cardinality(full)
        used == IF k = 0 THEN 0 ELSE P[k]
    IN  IF k = Len(s) THEN s
        ELSE IF used < n THEN Append(SubSeq(s, 1, k), Pad(n - used))
        ELSE SubSeq(s, 1, k)

\* s.strip(): whitespace removed at both ends.
Strip(s) ==
    LET keep == {k \in 1..Len(s) : ~IsSpace(s[k])}
    IN  IF keep = {} THEN <<>>
        ELSE SubSeq(s, CHOOSE a \in keep : \A b \in keep : a <= b,
                       CHOOSE a \in keep : \A b \in keep : a >= b)

\* The positions where pat occurs in s.
Occurrences(s, pat) ==
    {k \in 1..(Len(s) - Len(pat) + 1) :
        s[k] = pat[1] /\ SubSeq(s, k, k + Len(pat) - 1) = pat}

\* pat in s
Contains(s, pat) == Occurrences(s, pat) # {}

\* s.count(pat), for a pat that cannot overlap itself
Count(s, pat) == Cardinality(Occurrences(s, pat))

\* s.split(sep, 1)[-1]: what follows the first sep; s itself without one.
SplitFirstRest(s, sep) ==
    LET occ == Occurrences(s, sep)
    IN  IF occ = {} THEN s
        ELSE LET k == CHOOSE a \in occ : \A b \in occ : a <= b
             IN  SubSeq(s, k + Len(sep), Len(s))

\* s.rsplit(sep, 1)[0]: what precedes the last sep; s itself without one.
RSplitLastHead(s, sep) ==
    LET occ == Occurrences(s, sep)
    IN  IF occ = {} THEN s
        ELSE LET k == CHOOSE a \in occ : \A b \in occ : a >= b
             IN  SubSeq(s, 1, k - 1)

\* "".join(parts)
RECURSIVE Join(_)
Join(parts) == IF parts = <<>> THEN <<>> ELSE Head(parts) \o Join(Tail(parts))

\* s.replace(c, r) for a one-character c and a text r
RECURSIVE Replace(_, _, _)
Replace(s, c, r) ==
    IF Len(s) = 0 THEN <<>>
    ELSE IF Len(s) = 1 THEN (IF s[1] = c THEN r ELSE s)
    ELSE LET m == Len(s) \div 2
         IN  Replace(SubSeq(s, 1, m), c, r) \o Replace(SubSeq(s, m + 1, Len(s)), c, r)

\* str.lower() of one token, for the words of the model that have capitals
LowerTok(t) ==
    CASE t = "BODY"   -> "body"
      [] t = "Formal" -> "formal"
      [] t = "Casual" -> "casual"
      [] OTHER        -> t

Lower(s) == [k \in 1..Len(s) |-> LowerTok(s[k])]

---------------------------------------------------------------------------
(* _make_base64_svg, main.py:89-112                                        *)

\* esc, main.py:91-92: three replaces, "&" first.
esc_swapped(s) ==
    Replace(Replace(Replace(s, "<", <<"&", "lt;">>), ">", <<"&", "gt;">>),
            "&", <<"&", "amp;">>)

esc(s) ==
    Replace(Replace(Replace(s, "&", <<"&", "amp;">>), "<", <<"&", "lt;">>),
            ">", <<"&", "gt;">>)

\* {width*0.2} and the like: the float product as Python prints it, for the
\* widths and heights of the program (a whole number of tenths).
Times(n, hundredths) ==
    LET t == (n * hundredths) \div 10
    IN  ToString(t \div 10) \o "." \o ToString(t % 10)

TextOpen(y, size, weight, fill) ==
    <<"<", "text x=\"50%\" y=\"" \o y \o "\" dominant-baseline=\"middle\" text-anchor=\"middle\" font-family=\"Inter, Arial\" font-size=\"" \o size \o "\"" \o weight \o " fill=\"" \o fill \o "\"", ">">>

TextClose == <<"<", "/", "text", ">">>

\* The three caption elements: title, subtitle, footer (main.py:107-109).
TextOpens ==
    <<TextOpen("45%", "28", " font-weight=\"700\"", "#ffffff"),
      TextOpen("55%", "18", " font-weight=\"500\"", "#f0f0f0"),
      TextOpen("90%", "14", "", "#f9f9f9")>>

NL(indent) == "\n" \o indent

\* The SVG text of main.py:94-110.
SvgText(width, height, bg_color, title, subtitle, footer) ==
    <<"<", "svg xmlns=\"http://www.w3.org/2000/svg\" width=\"" \o ToString(width)
            \o "\" height=\"" \o ToString(height) \o "\"", ">",
      NL("      "), "<", "defs", ">",
      NL("        "), "<", "linearGradient id=\"g\" x1=\"0\" y1=\"0\" x2=\"1\" y2=\"1\"", ">",
      NL("          "), "<", "stop offset=\"0%\" stop-color=\"">> \o bg_color \o
    <<"\" stop-opacity=\"0.95\" /", ">",
      NL("          "), "<", "stop offset=\"100%\" stop-color=\"">> \o bg_color \o
    <<"\" stop-opacity=\"0.7\" /", ">",
      NL("        "), "<", "/", "linearGradient", ">",
      NL("      "), "<", "/", "defs", ">",
      NL("      "), "<", "rect width=\"100%\" height=\"100%\" fill=\"url(#g)\"/", ">",
      NL("      "), "<", "g fill=\"#ffffff\" opacity=\"0.15\"", ">",
      NL("        "), "<", "circle cx=\"" \o Times(width, 20) \o "\" cy=\""
            \o Times(height, 30) \o "\" r=\"60\"/", ">",
      NL("        "), "<", "circle cx=\"" \o Times(width, 80) \o "\" cy=\""
            \o Times(height, 20) \o "\" r=\"40\"/", ">",
      NL("        "), "<", "circle cx=\"" \o Times(width, 60) \o "\" cy=\""
            \o Times(height, 75) \o "\" r=\"70\"/", ">",
      NL("      "), "<", "/", "g", ">",
      NL("      ")>>
    \o TextOpens[1] \o esc(title) \o TextClose
    \o <<NL("      ")>>
    \o TextOpens[2] \o esc(subtitle) \o TextClose
    \o <<NL("      ")>>
    \o TextOpens[3] \o esc(footer) \o TextClose
    \o <<NL("    "), "<", "/", "svg", ">">>

\* svg.encode("utf-8") raises UnicodeEncodeError on a lone surrogate.
Encodable(s) == \A k \in 1..Len(s) : s[k] # SURROGATE

\* str(e) of that UnicodeEncodeError.
EncodeError(s) ==
    LET bad == {k \in 1..Len(s) : s[k] = SURROGATE}
        k   == CHOOSE a \in bad : \A b \in bad : a <= b
    IN  <<"'utf-8' codec can't encode character '\\ud800' in position ",
          ToString(StrLen(SubSeq(s, 1, k - 1))), ":", " ", "surrogates not allowed">>

\* base64.b64encode(...).decode(): an injective encoding into an alphabet
\* that holds none of the characters of the markup.
B64Tok(t) == "b64[" \o t \o "]"
B64(s) == [k \in 1..Len(s) |-> B64Tok(s[k])]

DataUriPrefix == "data:image/svg+xml;base64,"

\* The result of a call: the value returned, or the exception raised.
Returned(v) == [raised |-> FALSE, value |-> v, error |-> <<>>]
Raised(e)   == [raised |-> TRUE, value |-> <<>>, error |-> e]

_make_base64_svg(width, height, bg_color, title, subtitle, footer) ==
    LET svg == SvgText(width, height, bg_color, title, subtitle, footer)
    IN  IF Encodable(svg) THEN Returned(<<DataUriPrefix>> \o B64(svg))
        ELSE Raised(EncodeError(svg))

---------------------------------------------------------------------------
(* _ai_image, main.py:115-125                                              *)

PromptCut     == 60      \* prompt[:60]
DefaultWidth  == 1200
DefaultHeight == 800

NoError     == [none |-> TRUE, text |-> <<>>]       \* last_error = None
SomeError(e) == [none |-> FALSE, text |-> e]

\* last_error or ""
ErrorText(le) == IF le.none THEN <<>> ELSE le.text

\* main.py:120
Subtitle(st, pr) == Strip(st \o <<" ", BULLET, " ">> \o Slice(pr, PromptCut))

\* main.py:120-121, the body of the try
Synthesize(pr, st, color, width, height) ==
    _make_base64_svg(width, height, color, <<"AI Illustration">>,
                     Subtitle(st, pr), <<"Generated Inline">>)

\* main.py:125
Fallback(color, width, height, le) ==
    _make_base64_svg(width, height, color, <<"Image Unavailable">>,
                     ErrorText(le), <<"Retry later">>)

\* range(retries + 1), main.py:118
AttemptLimit_short(r) == r

AttemptLimit(r) == r + 1

\* last_error = str(e), main.py:123
NextLastError_first(le, e) == IF le.none THEN SomeError(e) ELSE le

NextLastError(le, e) == SomeError(e)

\* The whole call, when no fault is injected.
RECURSIVE RetryLoop(_, _, _, _, _, _, _, _)
RetryLoop(k, le, pr, st, color, width, height, r) ==
    IF k >= AttemptLimit(r) THEN Fallback(color, width, height, le)
    ELSE LET a == Synthesize(pr, st, color, width, height)
         IN  IF ~a.raised THEN a
             ELSE RetryLoop(k + 1, NextLastError(le, a.error), pr, st, color,
                            width, height, r)

_ai_image(pr, st, color, width, height, r) ==
    RetryLoop(0, NoError, pr, st, color, width, height, r)

\* The same call attempt by attempt, with the calls of _make_base64_svg
\* numbered 1, 2, ... and those in faults made to raise.
InjectedError(c) == <<"injected fault ", ToString(c)>>

Call(c, natural) == IF c \in faults THEN Raised(InjectedError(c)) ELSE natural

ThisAttempt ==
    Call(attempt + 1, Synthesize(prompt, style, theme_color, DefaultWidth, DefaultHeight))

ThisFallback ==
    Call(attempt + 1, Fallback(theme_color, DefaultWidth, DefaultHeight, last_error))

\* One iteration of the loop whose try returns (main.py:119-121).
AttemptReturns ==
    /\ img_pc = "loop"
    /\ attempt < AttemptLimit(retries)
    /\ ~ThisAttempt.raised
    /\ attempt' = attempt + 1
    /\ img_out' = ThisAttempt.value
    /\ img_pc' = "returned"
    /\ UNCHANGED <<prompt, style, theme_color, retries, faults, last_error, errors>>
    /\ UNCHANGED <<plan_vars, gen_vars>>

\* One iteration of the loop whose try raises (main.py:122-124).
AttemptFails ==
    /\ img_pc = "loop"
    /\ attempt < AttemptLimit(retries)
    /\ ThisAttempt.raised
    /\ attempt' = attempt + 1
    /\ last_error' = NextLastError(last_error, ThisAttempt.error)
    /\ errors' = Append(errors, ThisAttempt.error)
    /\ UNCHANGED <<prompt, style, theme_color, retries, faults, img_pc, img_out>>
    /\ UNCHANGED <<plan_vars, gen_vars>>

\* The loop is exhausted and the fallback image is built (main.py:125).
FallbackReturns ==
    /\ img_pc = "loop"
    /\ attempt >= AttemptLimit(retries)
    /\ ~ThisFallback.raised
    /\ img_out' = ThisFallback.value
    /\ img_pc' = "returned"
    /\ UNCHANGED <<prompt, style, theme_color, retries, faults, attempt, last_error, errors>>
    /\ UNCHANGED <<plan_vars, gen_vars>>

\* The fallback call itself raises: nothing catches it (main.py:125).
FallbackRaises ==
    /\ img_pc = "loop"
    /\ attempt >= AttemptLimit(retries)
    /\ ThisFallback.raised
    /\ img_pc' = "raised"
    /\ errors' = Append(errors, ThisFallback.error)
    /\ UNCHANGED <<prompt, style, theme_color, retries, faults, attempt, last_error, img_out>>
    /\ UNCHANGED <<plan_vars, gen_vars>>

---------------------------------------------------------------------------
(* _split_into_paragraphs and _generate_lorem, main.py:128-145             *)

\* text.replace("\r\n", "\n"), on the tokens lo..hi of s
RECURSIVE DropCR(_, _, _)
DropCR(s, lo, hi) ==
    IF lo > hi THEN <<>>
    ELSE IF lo = hi
         THEN (IF s[lo] = "\r" /\ lo < Len(s) /\ s[lo + 1] = "\n" THEN <<>> ELSE <<s[lo]>>)
    ELSE LET m == (lo + hi) \div 2
         IN  DropCR(s, lo, m) \o DropCR(s, m + 1, hi)

ReplaceCRLF(s) == DropCR(s, 1, Len(s))

\* textwrap.wrap(text, width) with the defaults of textwrap: every
\* whitespace character becomes a space; the text is cut into chunks, the
\* words and the runs of spaces between them; a line takes chunks while they
\* fit in width; a run of spaces at either end of a line is dropped.  (A tab,
\* which textwrap would expand first, a hyphen inside a word, and a word
\* longer than width, which textwrap would break, are not among the texts
\* of the model: a word too long for a line is given a line of its own.)
RECURSIVE WrapFrom(_, _, _, _, _)
WrapFrom(t, P, width, p, lines) ==
    LET n  == Len(t)
        ws == {k \in p..n : t[k] # " "}
        p1 == IF lines # <<>> /\ p <= n /\ t[p] = " "
              THEN (IF ws = {} THEN n + 1 ELSE CHOOSE a \in ws : \A b \in ws : a <= b)
              ELSE p
    IN  IF p1 > n THEN lines
        ELSE LET base == IF p1 = 1 THEN 0 ELSE P[p1 - 1]
                 ChunkEnd(q) == q = n \/ ((t[q] = " ") # (t[q + 1] = " "))
                 fits == {q \in p1..n : ChunkEnd(q) /\ P[q] - base <= width}
                 ends == {q \in p1..n : ChunkEnd(q)}
                 q    == IF fits # {} THEN CHOOSE a \in fits : \A b \in fits : a >= b
                         ELSE CHOOSE a \in ends : \A b \in ends : a <= b
                 text == {k \in p1..q : t[k] # " "}
                 q2   == IF text = {} THEN p1 - 1
                         ELSE CHOOSE a \in text : \A b \in text : a >= b
                 line == SubSeq(t, p1, q2)
             IN  WrapFrom(t, P, width, q + 1,
                          IF line = <<>> THEN lines ELSE Append(lines, line))

Wrap(s, width) ==
    LET t == [k \in 1..Len(s) |-> IF IsSpace(s[k]) THEN " " ELSE s[k]]
    IN  WrapFrom(t, PrefixLen(t), width, 1, <<>>)

\* main.py:128-135: the paragraphs of a text, as a sequence of texts.
_split_into_paragraphs(text, max_chars) ==
    LET t == ReplaceCRLF(Strip(text))
    IN  IF t = <<>> THEN <<>> ELSE Wrap(t, max_chars)

\* s * n
Repeat(s, n) == [k \in 1..(n * Len(s)) |-> s[((k - 1) % Len(s)) + 1]]

\* The fixed text of main.py:140-144, after the style.
LoremTail ==
  <<" ", "tone.", " ", "This", " ", "section", " ", "delves", " ", "into", " ", "the",
    " ", "core", " ", "ideas,", " ", "practical", " ", "implications,", " ", "and",
    " ", "examples", " ", "to", " ", "make", " ", "the", " ", "material", " ",
    "engaging", " ", "and", " ", "accessible.", " ", "We", " ", "balance", " ",
    "clarity", " ", "with", " ", "depth,", " ", "ensuring", " ", "each", " ",
    "concept", " ", "builds", " ", "on", " ", "the", " ", "previous", " ", "one", " ",
    "while", " ", "maintaining", " ", "a", " ", "compelling", " ", "narrative", " ",
    "arc.", " ", "Key", " ", "takeaways", " ", "are", " ", "highlighted", " ", "with",
    " ", "actionable", " ", "insights", " ", "and", " ", "meaningful", " ", "context.",
    " ">>

\* main.py:138-145
_generate_lorem(topic, st, words) ==
    LET base == topic \o <<" ", EMDASH, " ", "An", " ", "exploration", " ", "in", " ">>
                \o Lower(st) \o LoremTail
    IN  Slice(Repeat(base, Max(1, words \div 40)), words * 5)

---------------------------------------------------------------------------
(* _length_to_pages, main.py:148-155                                       *)

_length_to_pages_medium_first(len) ==
    IF Contains(len, <<"Medium">>) THEN 10
    ELSE IF Contains(len, <<"Short">>) THEN 5
    ELSE IF Contains(len, <<"Long">>) THEN 20
    ELSE 5

_length_to_pages(len) ==
    IF Contains(len, <<"Short">>) THEN 5
    ELSE IF Contains(len, <<"Medium">>) THEN 10
    ELSE IF Contains(len, <<"Long">>) THEN 20
    ELSE 5

\* The call returns.
PlanReturns ==
    /\ plan_pc = "call"
    /\ pages_out' = _length_to_pages(length)
    /\ plan_pc' = "done"
    /\ UNCHANGED <<length, img_vars, gen_vars>>

---------------------------------------------------------------------------
(* The markup: main.py:158-253                                             *)

\* main.py:158-175
_common_css ==
    <<"<", "style", ">",
      "@page { size: A4; margin: 20mm; }",
      "body { font-family: Inter, Arial, sans-serif; color: #0f172a; }",
      ".page { width: 210mm; height: 297mm; box-sizing: border-box; padding: 20mm; display: flex; flex-direction: column; justify-content: flex-start; }",
      "h1 { font-size: 32px; font-weight: 700; margin: 0 0 12px; }",
      "h2 { font-size: 26px; font-weight: 600; margin: 0 0 10px; }",
      "p { font-size: 18px; line-height: 1.6; margin: 10px 0; }",
      ".center { display:flex; flex-direction:column; align-items:center; justify-content:center; text-align:center; height:100%; }",
      ".cover-title { font-size: 42px; font-weight: 800; margin-bottom: 8px; }",
      ".cover-subtitle { font-size: 22px; font-weight: 600; opacity: 0.95; }",
      ".author { margin-top: 24px; font-size: 18px; opacity: 0.9; }",
      "img { max-width: 100%; height: auto; border-radius: 8px; }",
      ".page-img { margin: 12px 0 6px; }",
      ".break { page-break-after: always; }",
      "<", "/", "style", ">">>

BodyOpen    == <<"<", "body", ">">>
BodyClose   == <<"<", "/", "body", ">">>
PageMark    == <<"class=\"page\"">>
BreakMarker == <<"<", "div", " ", "class=\"break\"", ">", "<", "/", "div", ">">>
DivClose    == <<"<", "/", "div", ">">>

\* "<!DOCTYPE html><html><head>" + _common_css() + "</head><body>"
DocOpen ==
    <<"<", "!DOCTYPE html", ">", "<", "html", ">", "<", "head", ">">> \o _common_css
    \o <<"<", "/", "head", ">">> \o BodyOpen

\* "</body></html>"
DocClose == BodyClose \o <<"<", "/", "html", ">">>

CoverWidth  == 2480
CoverHeight == 1748
PageWidth   == 1200
PageHeight  == 720
LoremWords  == 250
ParaWidth   == 600
MaxParas    == 5
DefaultRetries == 2

\* main.py:179-185
CoverImage(r) ==
    _ai_image(<<"Book cover about", " ">> \o r.topic_description, r.image_style,
              r.theme_color, CoverWidth, CoverHeight, DefaultRetries)

\* main.py:188-195: what _cover_html puts between <body> and </body>
CoverBody(r, img) ==
    <<"<", "div", " ", "class=\"page\"", " ", "style=\"background-color:">>
    \o r.theme_color \o <<"; color:white;\"", ">">>
    \o <<"  ", "<", "div", " ", "class=\"center\"", ">">>
    \o <<"    ", "<", "img alt=\"Cover\" class=\"page-img\" src=\"">> \o img \o <<"\" /", ">">>
    \o <<"    ", "<", "div", " ", "class=\"cover-title\"", ">">> \o r.book_title \o DivClose
    \o <<"    ", "<", "div", " ", "class=\"cover-subtitle\"", ">">> \o r.subtitle \o DivClose
    \o <<"    ", "<", "div", " ", "class=\"author\"", ">", "By", " ">> \o r.author_name \o DivClose
    \o <<"  ">> \o DivClose
    \o DivClose

\* main.py:186-198, given the image
_cover_html(r, img) == DocOpen \o CoverBody(r, img) \o DocClose

\* main.py:203-214
sections ==
    <<"Introduction", "Foundations", "Key Concepts", "Applications", "Case Study",
      "Techniques", "Best Practices", "Challenges", "Future Outlook", "Conclusion">>

\* sections[i % len(sections)], main.py:218 (i counts from 0)
heading_shifted(k) == sections[((k + 1) % Len(sections)) + 1]

heading(k) == sections[(k % Len(sections)) + 1]

\* main.py:219-220 and paragraphs[:5] of main.py:232
Paragraphs(r) ==
    LET text == _generate_lorem(r.topic_description, r.writing_style, LoremWords)
        paragraphs == _split_into_paragraphs(text, ParaWidth)
    IN  SubSeq(paragraphs, 1, Min(MaxParas, Len(paragraphs)))

\* main.py:221-227
PageImage(r, k) ==
    _ai_image(<<heading(k), " ", EMDASH, " ">> \o r.topic_description, r.image_style,
              r.theme_color, PageWidth, PageHeight, DefaultRetries)

\* main.py:228-234: the page block of page k (from 0).  With omit, the
\* injected fault, the block is emitted without its class="page".
PageBlock(r, k, img, omit) ==
    LET ps == Paragraphs(r)
    IN  <<"<", "div", " ">> \o (IF omit THEN <<>> ELSE PageMark \o <<" ">>)
        \o <<"style=\"background-color:">> \o r.page_background_color \o <<";\"", ">">>
        \o <<"  ", "<", "h2", ">", ToString(k + 1), ".", " ", heading(k), "<", "/", "h2", ">">>
        \o <<"  ", "<", "img class=\"page-img\" alt=\"Illustration\" src=\"">> \o img
        \o <<"\" /", ">">>
        \o Join([j \in 1..Len(ps) |-> <<"<", "p", ">">> \o ps[j] \o <<"<", "/", "p", ">">>])
        \o DivClose

\* cover_html.split("<body>", 1)[-1].rsplit("</body>", 1)[0], main.py:244-245
ExtractBody_first_close(doc) ==
    LET rest == SplitFirstRest(doc, BodyOpen)
        occ  == Occurrences(rest, BodyClose)
    IN  IF occ = {} THEN rest
        ELSE SubSeq(rest, 1, (CHOOSE a \in occ : \A b \in occ : a <= b) - 1)

ExtractBody(doc) == RSplitLastHead(SplitFirstRest(doc, BodyOpen), BodyClose)

\* main.py:242-253
_assemble_full_html_no_break(cover, content) ==
    DocOpen \o ExtractBody(cover) \o ExtractBody(content) \o DocClose

_assemble_full_html(cover, content) ==
    DocOpen \o ExtractBody(cover) \o BreakMarker \o ExtractBody(content) \o DocClose

---------------------------------------------------------------------------
(* The inputs of a call of _ai_image.                                      *)

MaxRetries == 2

ScriptText == <<"<", "script", ">", "&", "<", "/", "script", ">">>

\* 67 characters; the surrogate is the 67th, beyond the cut at 60.
LongPrompt ==
    <<"Book", " ", "cover", " ", "about", " ", "electromagnetism", " ", "and", " ",
      "thermodynamics", " ", "for", " ", "beginners", SURROGATE>>

Prompts ==
    {<<"physics">>, <<"physics", " ">>, ScriptText, <<"&", "lt;">>, <<SURROGATE>>,
     LongPrompt}

Styles == {<<"Flat">>, <<" ", "Ink", "&", "Wash">>, <<SURROGATE>>}

Colors == {<<"#112233">>, <<SURROGATE>>}

ImgNext == AttemptReturns \/ AttemptFails \/ FallbackReturns \/ FallbackRaises

Fields ==
    {"book_title", "subtitle", "author_name", "theme_color", "page_background_color",
     "writing_style", "image_style", "length", "topic_description"}

NoRequest == [f \in Fields |-> <<>>]

NoResponse == [status |-> 0, detail |-> <<>>]

\* One call of _ai_image, with any of its calls of _make_base64_svg failing.
InitImg ==
    /\ prompt \in Prompts
    /\ style \in Styles
    /\ theme_color \in Colors
    /\ retries \in 0..MaxRetries
    /\ faults \in SUBSET (1..(retries + 2))
    /\ attempt = 0
    /\ last_error = NoError
    /\ errors = <<>>
    /\ img_pc = "loop"
    /\ img_out = <<>>
    /\ length = <<>> /\ pages_out = 0 /\ plan_pc = "idle"
    /\ req = NoRequest /\ omit_markers = FALSE /\ pc = "idle"
    /\ cover_html = <<>> /\ html_parts = <<>> /\ i = 0 /\ content_html = <<>>
    /\ full_html = <<>> /\ response = NoResponse

SpecImg == InitImg /\ [][ImgNext]_vars

---------------------------------------------------------------------------
(* One call of _length_to_pages.                                           *)

MaxLengthTokens == 3

LengthWords == {"Short", "Medium", "Long", "Extra", " ", "short"}

Lengths == UNION {[1..n -> LengthWords] : n \in 0..MaxLengthTokens}

InitPlan ==
    /\ length \in Lengths
    /\ pages_out = 0
    /\ plan_pc = "call"
    /\ prompt = <<>> /\ style = <<>> /\ theme_color = <<>> /\ retries = 0
    /\ faults = {} /\ attempt = 0 /\ last_error = NoError /\ errors = <<>>
    /\ img_pc = "idle" /\ img_out = <<>>
    /\ req = NoRequest /\ omit_markers = FALSE /\ pc = "idle"
    /\ cover_html = <<>> /\ html_parts = <<>> /\ i = 0 /\ content_html = <<>>
    /\ full_html = <<>> /\ response = NoResponse

SpecPlan == InitPlan /\ [][PlanReturns]_vars

---------------------------------------------------------------------------
(* generate_book, main.py:256-266, one request.                            *)

Plain ==
    [book_title            |-> <<"Atoms">>,
     subtitle              |-> <<"A", " ", "primer">>,
     author_name           |-> <<"Ann">>,
     theme_color           |-> <<"#112233">>,
     page_background_color |-> <<"#ffffff">>,
     writing_style         |-> <<"Formal">>,
     image_style           |-> <<"Flat">>,
     length                |-> <<"Short">>,
     topic_description     |-> <<"physics">>]

\* The values a field takes in place of its plain one.
Other(f) ==
    CASE f = "book_title"            -> {BodyOpen, BodyClose, PageMark}
      [] f = "subtitle"              -> {BodyClose}
      [] f = "author_name"           -> {BodyOpen}
      [] f = "theme_color"           -> {<<SURROGATE>>, BodyOpen}
      [] f = "page_background_color" -> {BreakMarker, PageMark, BodyClose}
      [] f = "writing_style"         -> {<<"Casual">>, <<"<", "/", "BODY", ">">>}
      [] f = "image_style"           -> {ScriptText, <<SURROGATE>>}
      [] f = "length"                -> {<<"Medium">>, <<"Long">>, <<"Tiny">>,
                                         <<"Medium", " ", "Short">>}
      [] f = "topic_description"     -> {BodyOpen, BodyClose, PageMark, BreakMarker,
                                         <<SURROGATE>>}

MaxChanged == 1

\* The plain request, and every request that differs from it in at most k
\* fields.
RECURSIVE Changed(_)
Changed(k) ==
    IF k = 0 THEN {Plain}
    ELSE LET less == Changed(k - 1)
         IN  less \cup UNION {{[r EXCEPT ![f] = v] : v \in Other(f), r \in less} : f \in Fields}

Requests == Changed(MaxChanged)

pages == _length_to_pages(req.length)

Respond(status, detail) == [status |-> status, detail |-> detail]

\* cover_html = _cover_html(req), main.py:259; an exception of _ai_image
\* ends the request in the handler of main.py:265-266.
ComposeCover ==
    /\ pc = "cover"
    /\ LET img == CoverImage(req)
       IN  IF img.raised
           THEN /\ response' = Respond(500, img.error)
                /\ pc' = "done"
                /\ UNCHANGED cover_html
           ELSE /\ cover_html' = _cover_html(req, img.value)
                /\ pc' = "content"
                /\ UNCHANGED response
    /\ UNCHANGED <<req, omit_markers, html_parts, i, content_html, full_html>>
    /\ UNCHANGED <<img_vars, plan_vars>>

\* _content_pages_html begins, main.py:202-215
ContentBegin ==
    /\ pc = "content"
    /\ html_parts' = <<DocOpen>>
    /\ i' = 0
    /\ pc' = "page"
    /\ UNCHANGED <<req, omit_markers, cover_html, content_html, full_html, response>>
    /\ UNCHANGED <<img_vars, plan_vars>>

\* One iteration of the loop of main.py:217-236
ContentPage ==
    /\ pc = "page"
    /\ i < pages
    /\ LET img == PageImage(req, i)
       IN  IF img.raised
           THEN /\ response' = Respond(500, img.error)
                /\ pc' = "done"
                /\ UNCHANGED <<html_parts, i>>
           ELSE /\ html_parts' =
                      Append(html_parts, PageBlock(req, i, img.value, omit_markers))
                      \o (IF i < pages - 1 THEN <<BreakMarker>> ELSE <<>>)
                /\ i' = i + 1
                /\ UNCHANGED <<pc, response>>
    /\ UNCHANGED <<req, omit_markers, cover_html, content_html, full_html>>
    /\ UNCHANGED <<img_vars, plan_vars>>

\* The loop is over: main.py:238-239, and content_html of main.py:260
ContentEnd ==
    /\ pc = "page"
    /\ i >= pages
    /\ html_parts' = Append(html_parts, DocClose)
    /\ content_html' = Join(html_parts')
    /\ pc' = "assemble"
    /\ UNCHANGED <<req, omit_markers, cover_html, i, full_html, response>>
    /\ UNCHANGED <<img_vars, plan_vars>>

\* main.py:261
Assemble ==
    /\ pc = "assemble"
    /\ full_html' = _assemble_full_html(cover_html, content_html)
    /\ pc' = "check"
    /\ UNCHANGED <<req, omit_markers, cover_html, html_parts, i, content_html, response>>
    /\ UNCHANGED <<img_vars, plan_vars>>

\* main.py:262-266
CheckAndRespond ==
    /\ pc = "check"
    /\ response' = IF ~Contains(full_html, PageMark)
                   THEN Respond(500, <<"No pages generated">>)
                   ELSE Respond(200, <<>>)
    /\ pc' = "done"
    /\ UNCHANGED <<req, omit_markers, cover_html, html_parts, i, content_html, full_html>>
    /\ UNCHANGED <<img_vars, plan_vars>>

Init ==
    /\ req \in Requests
    /\ omit_markers \in BOOLEAN
    /\ pc = "cover"
    /\ cover_html = <<>> /\ html_parts = <<>> /\ i = 0 /\ content_html = <<>>
    /\ full_html = <<>> /\ response = NoResponse
    /\ prompt = <<>> /\ style = <<>> /\ theme_color = <<>> /\ retries = 0
    /\ faults = {} /\ attempt = 0 /\ last_error = NoError /\ errors = <<>>
    /\ img_pc = "idle" /\ img_out = <<>>
    /\ length = <<>> /\ pages_out = 0 /\ plan_pc = "idle"

Next ==
    \/ ComposeCover
    \/ ContentBegin
    \/ ContentPage
    \/ ContentEnd
    \/ Assemble
    \/ CheckAndRespond

Spec == Init /\ [][Next]_vars

---------------------------------------------------------------------------
(* Reading the captions back from a data URI.                              *)

\* The encoded text of caption k (1 title, 2 subtitle, 3 footer): what lies
\* between the k-th text element's opening tag and the next closing tag.
Caption(uri, k) ==
    LET open  == CHOOSE p \in 1..Len(uri) : uri[p] = B64Tok(TextOpens[k][2])
        first == open + 2
        ends  == {p \in Occurrences(uri, B64(TextClose)) : p >= first}
        last  == CHOOSE a \in ends : \A b \in ends : a <= b
    IN  SubSeq(uri, first, last - 1)

IsFallbackImage(uri) == Caption(uri, 1) = B64(<<"Image Unavailable">>)

\* Each "&", "<", ">" of s replaced once, all at the same time.
EscapeOnce(s) ==
    Join([k \in 1..Len(s) |->
            CASE s[k] = "&" -> <<"&", "amp;">>
              [] s[k] = "<" -> <<"&", "lt;">>
              [] s[k] = ">" -> <<"&", "gt;">>
              [] OTHER      -> <<s[k]>>])

\* No raw "<" or ">", and no "&" but the one that starts an entity.
CleanCaption(c) ==
    \A k \in 1..Len(c) :
        /\ c[k] \notin {B64Tok("<"), B64Tok(">")}
        /\ c[k] = B64Tok("&") =>
              k < Len(c) /\ c[k + 1] \in {B64Tok("amp;"), B64Tok("lt;"), B64Tok("gt;")}

\* C3: _ai_image never raises: with no fault injected, whatever the
\* arguments, the call does not end in an exception, and when every attempt
\* failed the image returned is the fallback, titled "Image Unavailable".
C3_NeverRaises ==
    faults = {} =>
        /\ img_pc # "raised"
        /\ (img_pc = "returned" /\ Len(errors) = retries + 1) => IsFallbackImage(img_out)

\* C4: at most retries + 1 attempts are made; an image that is not the
\* fallback is returned by the first attempt that succeeds, every attempt
\* before it having failed, and nothing runs after it; the fallback ("Image
\* Unavailable", "Retry later") is returned only after exactly retries + 1
\* failed attempts, and its subtitle is the reason of the last of them.
C4_RetryThenFallback ==
    /\ attempt <= retries + 1
    /\ img_pc \in {"returned", "raised"} => ~ENABLED ImgNext
    /\ (img_pc = "returned" /\ ~IsFallbackImage(img_out)) =>
          /\ Len(errors) = attempt - 1
          /\ Caption(img_out, 1) = B64(<<"AI Illustration">>)
    /\ (img_pc = "returned" /\ IsFallbackImage(img_out)) =>
          /\ attempt = retries + 1
          /\ Len(errors) = retries + 1
          /\ Caption(img_out, 2) = B64(EscapeOnce(errors[retries + 1]))
          /\ Caption(img_out, 3) = B64(<<"Retry later">>)

\* The fallback returned after three attempts that failed for three reasons.
C4_Witness ==
    /\ img_pc = "returned" /\ IsFallbackImage(img_out)
    /\ retries = 2 /\ Len(errors) = 3
    /\ errors[1] # errors[3] /\ errors[2] # errors[3]

\* C8: the three captions of a synthesized image hold no raw "<" or ">" and
\* no "&" but the one of an entity, and the subtitle is the text given
\* (style, bullet, prompt[:60], stripped; or the failure reason) with each
\* "&", "<", ">" replaced exactly once.
C8_CaptionsEscaped ==
    img_pc = "returned" =>
        /\ \A k \in 1..3 : CleanCaption(Caption(img_out, k))
        /\ Caption(img_out, 2) =
              B64(EscapeOnce(IF IsFallbackImage(img_out) THEN ErrorText(last_error)
                             ELSE Subtitle(style, prompt)))

\* An image synthesized from <script>&</script>, at the first attempt.
C8_Witness ==
    /\ img_pc = "returned" /\ ~IsFallbackImage(img_out)
    /\ prompt = ScriptText
    /\ Contains(Caption(img_out, 2), B64(<<"&", "lt;", "script", "&", "gt;", "&", "amp;">>))

---------------------------------------------------------------------------
(* The documents of a request, read back.                                  *)

\* What the content composer put between its <body> and </body>.
ContentBody == Join(SubSeq(html_parts, 2, Len(html_parts) - 1))

\* The text of doc between its first <body> and its last </body>.
BetweenMarkers(doc) ==
    LET opens  == Occurrences(doc, BodyOpen)
        closes == Occurrences(doc, BodyClose)
        a == CHOOSE x \in opens : \A y \in opens : x <= y
        b == CHOOSE x \in closes : \A y \in closes : x >= y
    IN  SubSeq(doc, a + Len(BodyOpen), b - 1)

FallbackTitle == B64(<<"Image Unavailable">>)

\* C1: the content document holds exactly N page-block indicators and
\* exactly N-1 break markers, N = _length_to_pages(length); a break marker
\* follows every page block but the last, and none follows the last.
C1_PageAndBreakCounts ==
    (content_html # <<>> /\ ~omit_markers) =>
        /\ Count(content_html, PageMark) = pages
        /\ Count(content_html, BreakMarker) = pages - 1
        /\ Len(html_parts) = 2 * pages + 1
        /\ \A k \in 1..(pages - 1) : html_parts[2 * k + 1] = BreakMarker
        /\ html_parts[2 * pages + 1] = DocClose

\* C2: when the content composer emits no page-block indicator at all, the
\* request fails with status 500, "No pages generated".
C2_MissingMarkersFail ==
    (pc = "done" /\ omit_markers /\ content_html # <<>>
        /\ ~Contains(content_html, PageMark)) =>
        response = Respond(500, <<"No pages generated">>)

\* C5: the full document is one envelope around the cover's body, one break
\* marker and the content's body, each body being the text between the
\* first <body> and the last </body> of its document; it holds at least
\* N + 1 page-block indicators, the cover's first; assembling the same pair
\* again gives the same document.
C5_AssembledDocument ==
    full_html # <<>> =>
        /\ full_html = DocOpen \o CoverBody(req, CoverImage(req).value) \o BreakMarker
                       \o ContentBody \o DocClose
        /\ full_html = DocOpen \o BetweenMarkers(cover_html) \o BreakMarker
                       \o BetweenMarkers(content_html) \o DocClose
        /\ ~omit_markers => Count(full_html, PageMark) >= pages + 1
        /\ SubSeq(full_html, Len(DocOpen) + 4, Len(DocOpen) + 4) = PageMark
        /\ _assemble_full_html(cover_html, content_html) = full_html

\* A request whose title is </body>, assembled and answered.
C5_Witness ==
    /\ pc = "done" /\ response.status = 200 /\ ~omit_markers
    /\ req.book_title = BodyClose
    /\ Count(full_html, PageMark) = pages + 1
    /\ Count(full_html, BodyClose) = 2

\* C7: page block k of the content document, k in 1..N, carries the number
\* k and the heading sections[(k-1) mod 10]; page 11 carries "Introduction".
C7_HeadingsInOrder ==
    content_html # <<>> =>
        LET H == Occurrences(content_html, <<"<", "h2", ">">>)
        IN  /\ Cardinality(H) = pages
            /\ \A p \in H :
                  LET k == Cardinality({q \in H : q <= p})
                  IN  SubSeq(content_html, p + 3, p + 6) =
                          <<ToString(k), ".", " ", sections[((k - 1) % 10) + 1]>>

\* A content document of 20 pages, whose page 11 is headed "Introduction".
C7_Witness ==
    /\ content_html # <<>> /\ pages = 20
    /\ Contains(content_html, <<"<", "h2", ">", "11", ".", " ", "Introduction">>)
    /\ Contains(content_html, <<"<", "h2", ">", "20", ".", " ", "Conclusion">>)

\* C9: extracting the body of the cover or of the content document (after
\* the first <body>, before the last </body>) gives exactly what the
\* composer put between the markers of its envelope, whatever the fields
\* hold, and wrapping it in a fresh envelope gives the document back.
C9_BodyRoundTrip ==
    /\ cover_html # <<>> =>
          /\ ExtractBody(cover_html) = CoverBody(req, CoverImage(req).value)
          /\ DocOpen \o ExtractBody(cover_html) \o DocClose = cover_html
    /\ content_html # <<>> =>
          /\ ExtractBody(content_html) = ContentBody
          /\ DocOpen \o ExtractBody(content_html) \o DocClose = content_html
          /\ Contains(DocOpen \o ExtractBody(content_html) \o DocClose, ContentBody)

\* A content document whose paragraphs hold </body>, from the topic.
C9_Witness ==
    /\ content_html # <<>>
    /\ req.topic_description = BodyClose
    /\ Count(content_html, BodyClose) > 1
    /\ ExtractBody(content_html) = ContentBody

\* C10: a request with no fault injected is always answered 200 with the
\* three documents, none of which holds the "Image Unavailable" fallback.
C10_AlwaysSucceeds ==
    (pc = "done" /\ ~omit_markers) =>
        /\ response.status = 200
        /\ cover_html # <<>> /\ content_html # <<>> /\ full_html # <<>>
        /\ ~Contains(cover_html, FallbackTitle)
        /\ ~Contains(content_html, FallbackTitle)
        /\ ~Contains(full_html, FallbackTitle)

\* C6 as stated: 5 with "Short", 10 with "Medium", 20 with "Long", 5 with
\* none of them, and always one of 5, 10, 20.
C6_PageCounts ==
    plan_pc = "done" =>
        /\ Contains(length, <<"Short">>) => pages_out = 5
        /\ Contains(length, <<"Medium">>) => pages_out = 10
        /\ Contains(length, <<"Long">>) => pages_out = 20
        /\ (~Contains(length, <<"Short">>) /\ ~Contains(length, <<"Medium">>)
              /\ ~Contains(length, <<"Long">>)) => pages_out = 5
        /\ pages_out \in {5, 10, 20}

\* C6, amended: 5 with "Short"; 10 with "Medium" and no "Short"; 20 with
\* "Long" and neither "Short" nor "Medium"; 5 with none of them; always one
\* of 5, 10, 20.
C6_PageCountsByPrecedence ==
    plan_pc = "done" =>
        /\ Contains(length, <<"Short">>) => pages_out = 5
        /\ (Contains(length, <<"Medium">>) /\ ~Contains(length, <<"Short">>))
              => pages_out = 10
        /\ (Contains(length, <<"Long">>) /\ ~Contains(length, <<"Short">>)
              /\ ~Contains(length, <<"Medium">>)) => pages_out = 20
        /\ (~Contains(length, <<"Short">>) /\ ~Contains(length, <<"Medium">>)
              /\ ~Contains(length, <<"Long">>)) => pages_out = 5
        /\ pages_out \in {5, 10, 20}

\* A length that holds both "Medium" and "Short", planned as 5 pages.
C6_Witness ==
    /\ plan_pc = "done"
    /\ Contains(length, <<"Medium">>) /\ Contains(length, <<"Short">>)
    /\ pages_out = 5

====
